---- MODULE Spec2Model ----
(***************************************************************************)
(* Model of libotp (daemons/ipa-slapi-plugins/libotp/libotp.c): the OTP    *)
(* token window validator, its write-back to the directory entry, and the  *)
(* requests that drive it (otptoken_validate, otptoken_sync).              *)
(*                                                                         *)
(* Integer widths.  TLC's integers are 32-bit, so the C widths are scaled: *)
(* IntBits stands for the 32 bits of int / unsigned int / uint32_t and     *)
(* LongBits for the 64 bits of uint64_t / ssize_t / time_t.  Every         *)
(* conversion of the source (int parameter of writeattr, sign extension of *)
(* slapi_entry_attr_get_int into a uint64_t field, unsigned comparison of  *)
(* ssize_t with uint64_t) is made at these widths.                         *)
(***************************************************************************)
EXTENDS Integers, Sequences, FiniteSets, TLC

\* ------------------------------------------------------------------ bounds
IntBits == 8
LongBits == 10
MaxSteps == 2
MaxNow == 2
MaxReqs == 2
MaxLen == 9

IntMod == 2 ^ IntBits
LongMod == 2 ^ LongBits
IntMax == (IntMod \div 2) - 1

\* libotp.c:51
IPA_OTP_DEFAULT_TOKEN_STEP == 30

Procs == {1, 2}
Toks == {1, 2}

\* ------------------------------------------------------- C integer conversions
\* value converted to uint64_t
U64(x) == x % LongMod
\* value converted to ssize_t / time_t
S64(x) == LET u == x % LongMod IN IF u >= LongMod \div 2 THEN u - LongMod ELSE u
\* value converted to int (the parameter of writeattr, the result of
\* slapi_entry_attr_get_int)
ToInt(x) == LET u == x % IntMod IN IF u >= IntMod \div 2 THEN u - IntMod ELSE u
\* value converted to uint32_t / unsigned int
U32(x) == x % IntMod
\* C integer division: truncates toward zero
CDiv(a, b) == IF a >= 0 THEN a \div b ELSE -((-a) \div b)

\* ------------------------------------------------------------ code generator
\* hotp() of librfc: a deterministic code for (key, counter), a uint32_t.
\* Two generators: key 1 gives distinct codes to all steps less than IntMod
\* apart; key 2 repeats every 2 * MaxSteps steps, so that two candidates of
\* one sweep can carry the same code.
hotp(token, counter) ==
    IF token.key = 1 THEN U32(counter) ELSE counter % (2 * MaxSteps)

\* ------------------------------------------------------------ token model
\* struct otptoken, libotp.c:62-77 (sdn is the record's id in the store), as
\* otptoken_new, libotp.c:266-345, builds it from a record that passes the checks of
\* lines 277-317: the per-type state is read with slapi_entry_attr_get_int
\* (an int, widened to uint64_t for watermark and counter).
otptoken_new(id, entry) ==
    IF entry.type = "TOTP"
    THEN [id |-> id, type |-> "TOTP", key |-> entry.key,
          watermark |-> U64(ToInt(entry.watermark)),
          step |-> IF U32(entry.timeStep) = 0 THEN IPA_OTP_DEFAULT_TOKEN_STEP
                   ELSE U32(entry.timeStep),
          offset |-> ToInt(entry.clockOffset),
          counter |-> 0]
    ELSE [id |-> id, type |-> "HOTP", key |-> entry.key,
          watermark |-> 0, step |-> 0, offset |-> 0,
          counter |-> U64(ToInt(entry.counter))]

\* the replay cursor of an in-memory token (the union of lines 67-76)
Cursor(token) == IF token.type = "TOTP" THEN token.watermark ELSE token.counter

\* the attribute validate() writes the cursor to, lines 182 and 190
CursorAttr(token) == IF token.type = "TOTP" THEN "watermark" ELSE "counter"

\* ------------------------------------------------------------ validate()
\* lines 180-195: the absolute step (an ssize_t) for the offset `step`
AbsStep(token, now, step) ==
    IF token.type = "TOTP"
    THEN S64(CDiv(S64(now + token.offset), token.step) + step)
    ELSE S64(token.counter + step)

\* Guard with the watermark test off by one: a step one below the watermark
\* passes
Guard_OffByOne(token, now, step) ==
    IF token.type = "TOTP"
    THEN ~(token.watermark > 0
           /\ U64(AbsStep(token, now, step)) + 1 < token.watermark)
    ELSE step >= 0

\* Guard with the watermark as an exclusive bound: a step equal to the
\* watermark is rejected
Guard_Exclusive(token, now, step) ==
    IF token.type = "TOTP"
    THEN ~(token.watermark > 0
           /\ U64(AbsStep(token, now, step)) <= token.watermark)
    ELSE step >= 0

\* lines 184-185 and 188-189: the backward-motion guard.  The TOTP test
\* compares an ssize_t with a uint64_t, that is, as unsigned values.
Guard(token, now, step) ==
    IF token.type = "TOTP"
    THEN ~(token.watermark > 0 /\ U64(AbsStep(token, now, step)) < token.watermark)
    ELSE step >= 0

\* Matches without the backward-motion guard
Matches_IgnoresGuard(token, now, step, first, second, two) ==
    LET s == AbsStep(token, now, step) IN
    /\ hotp(token, U64(s)) = first
    /\ two => hotp(token, U64(s + 1)) = second

\* lines 197-211: the code checks of validate()
Matches(token, now, step, first, second, two) ==
    LET s == AbsStep(token, now, step) IN
    /\ Guard(token, now, step)
    /\ hotp(token, U64(s)) = first
    /\ two => hotp(token, U64(s + 1)) = second

\* NewOffset computed from the step of the first code instead of the step
\* after both increments
NewOffset_FirstStep(token, now, s2) ==
    ToInt(U32((s2 - 2 - CDiv(now, token.step)) * token.step))

\* line 215: the clock offset handed to writeattr (uint32_t tmp, then int)
NewOffset(token, now, s2) ==
    ToInt(U32((s2 - CDiv(now, token.step)) * token.step))

\* writeattr that only ever raises the stored value
writeattr_raise(entry, attr, value) ==
    [entry EXCEPT ![attr] = IF @ > ToInt(value) THEN @ ELSE ToInt(value)]

\* lines 127-166: a successful writeattr replaces the attribute's value by
\* the int it was given
writeattr(entry, attr, value) == [entry EXCEPT ![attr] = ToInt(value)]

\* ------------------------------------------------------------------ state
VARIABLES
    store,   \* the directory: Toks -> the token entry's attributes
    now,     \* the wall clock: the latest reading of time()
    req,     \* Procs -> the request a server thread is running
    last,    \* history: Toks -> the latest request that accepted (op, step, time)
    nreq     \* history: the number of requests started

vars == <<store, now, req, last, nreq>>

\* an entry of the directory: the attributes otptoken_new reads
Entry(type, key, cursor, clockOffset, timeStep) ==
    [type |-> type, key |-> key,
     watermark |-> IF type = "TOTP" THEN cursor ELSE 0,
     clockOffset |-> clockOffset, timeStep |-> timeStep,
     counter |-> IF type = "HOTP" THEN cursor ELSE 0]

NoSnap == [t \in Toks |-> Entry("NONE", 0, 0, 0, 0)]

\* a thread that runs no request
Idle == [pc |-> "idle", op |-> "none", toks |-> <<>>, now |-> 0, steps |-> 0,
         i |-> 0, neg |-> FALSE, j |-> 1, first |-> 0, second |-> 0,
         step |-> 0, result |-> FALSE,
         \* history of the request, read by the properties only
         toks0 |-> <<>>, store0 |-> NoSnap, acc |-> 0, wfail |-> FALSE,
         writes |-> 0, calls |-> 0,
         \* the credential of otptoken_validate_berval: the berval (its bytes),
         \* the tail flag, and token->token.digits
         bv |-> <<>>, tail |-> FALSE, digits |-> 0,
         \* the entries the search of find() returned, in order
         ids |-> <<>>,
         \* the store's answers to the writes of the request, when they are
         \* fixed in advance: exactly the writes numbered in `fails` fail
         scripted |-> FALSE, fails |-> {},
         \* what the build makes of `i++` at INT_MAX, which is undefined: the
         \* int wraps to INT_MIN, or (wide) the index lives on in a register
         \* of 64 bits
         wide |-> FALSE]

\* the history counter `calls` stops one past the number of validate() calls
\* of a sweep over one token that runs through every non-negative int
CallCap == IntMod + 1

\* the writes of a request whose outcome can be fixed in advance; the history
\* counter `writes` stops one past them
MaxWrites == 3
WriteCap == MaxWrites + 1

NoLast == [set |-> FALSE, op |-> "none", s |-> 0, now |-> 0,
           entry |-> Entry("NONE", 0, 0, 0, 0)]

\* the offset argument of the next validate() call: i, or 0 - i
\* (lines 487, 491, 557, 561)
CallStep(r) == IF r.neg THEN 0 - r.i ELSE r.i

\* the two loops after a validate() call returned false: lines 485-495 of
\* otptoken_validate and 554-566 of otptoken_sync
LoopNext(r) ==
    IF ~r.neg THEN [r EXCEPT !.pc = "call", !.neg = TRUE]
    ELSE IF r.op = "sync" /\ r.j < Len(r.toks)
         THEN [r EXCEPT !.pc = "call", !.neg = FALSE, !.j = r.j + 1]
    ELSE LET \* i++: the two differ only at INT_MAX, where it is undefined
             n == IF r.wide THEN S64(r.i + 1) ELSE ToInt(r.i + 1)
         IN  \* `i <= steps` converts the int to size_t
             IF U64(n) <= r.steps
             THEN [r EXCEPT !.pc = "call", !.neg = FALSE, !.j = 1, !.i = n]
             ELSE [r EXCEPT !.pc = "done", !.result = FALSE]

\* how many steps a matching validate() has consumed when it writes: the
\* step++ of line 198 and, with a second code, of line 206
Consumed(r) == IF r.op = "sync" THEN 2 ELSE 1

\* lines 229-238: the advanced cursor saved to the object
SaveCursor(token, step) ==
    IF token.type = "TOTP" THEN [token EXCEPT !.watermark = U64(step)]
    ELSE [token EXCEPT !.counter = U64(step)]

\* A request starts: otptoken_find builds the tokens from the entries
\* (lines 415-416), the caller hands them to otptoken_validate_berval or
\* otptoken_sync_berval, which read the clock (lines 482, 551): time() is
\* any instant not before the previous reading, up to MaxNow.  The
\* request is a two-code one (otptoken_sync) or a single-code one
\* (otptoken_validate) as `two` says, two \in modes.  The
\* presented codes are those a device shows at a step `d` away from the
\* baseline of one of the tokens (d in shifts: inside the search window of
\* radius `steps` or outside it), the second code that of the next step or
\* of the one after it.
Begin(p, modes, arrays, radii, shifts, quota) ==
    /\ req[p].pc = "idle"
    /\ nreq < quota
    /\ nreq' = nreq + 1
    /\ \E two \in modes, ids \in arrays, steps \in radii, t \in now .. MaxNow,
          d \in shifts, e \in 1 .. 2 :
         \E dv \in 1 .. Len(ids) :
         LET op == IF two THEN "sync" ELSE "validate"
             toks == [k \in 1 .. Len(ids) |-> otptoken_new(ids[k], store[ids[k]])]
             dev == toks[dv]
             \* otptoken_validate reads the clock for a TOTP token only
             \* (line 482) and otherwise keeps now = 0
             reads == two \/ dev.type = "TOTP"
             tnow == IF reads THEN t ELSE 0
             x == AbsStep(dev, tnow, d)
         IN  /\ op = "validate" => e = 1 /\ Len(ids) = 1
             /\ ~reads => t = now
             /\ now' = t
             /\ req' = [req EXCEPT ![p] =
                   [Idle EXCEPT !.pc = "call", !.op = op, !.toks = toks,
                                !.now = tnow, !.steps = steps,
                                !.first = hotp(dev, U64(x)),
                                !.second = IF op = "sync"
                                           THEN hotp(dev, U64(x + e)) ELSE 0,
                                !.toks0 = toks, !.store0 = store]]
    /\ UNCHANGED <<store, last>>

\* One call of validate() (lines 173-241) up to its first store write.
ValidateCall(p) ==
    /\ req[p].pc = "call"
    /\ LET r == [req[p] EXCEPT !.calls = IF @ < CallCap THEN @ + 1 ELSE @]
           token == r.toks[r.j]
           two == r.op = "sync"
       IN  req' = [req EXCEPT ![p] =
             IF Matches(token, r.now, CallStep(r), r.first, r.second, two)
             THEN [r EXCEPT
                     !.step = S64(AbsStep(token, r.now, CallStep(r)) + Consumed(r)),
                     !.pc = IF two /\ token.type = "TOTP"
                            THEN "wr_offset" ELSE "wr_cursor"]
             ELSE LoopNext(r)]
    /\ UNCHANGED <<store, now, last, nreq>>

\* lines 214-218: the clock offset write of a TOTP synchronization
WriteOffset(p) ==
    /\ req[p].pc = "wr_offset"
    /\ LET r == [req[p] EXCEPT !.writes = IF @ < WriteCap THEN @ + 1 ELSE @]
           token == r.toks[r.j]
       IN \E ok \in BOOLEAN :
            /\ r.scripted => (ok <=> r.writes \notin r.fails)
            /\ IF ok
               THEN /\ store' = [store EXCEPT ![token.id] =
                           writeattr(@, "clockOffset", NewOffset(token, r.now, r.step))]
                    /\ req' = [req EXCEPT ![p] = [r EXCEPT !.pc = "wr_cursor"]]
               ELSE /\ store' = store
                    /\ req' = [req EXCEPT ![p] = LoopNext([r EXCEPT !.wfail = TRUE])]
    /\ UNCHANGED <<now, last, nreq>>

\* lines 224-240: the cursor write, and on success the update of the object
WriteCursor(p) ==
    /\ req[p].pc = "wr_cursor"
    /\ LET r == [req[p] EXCEPT !.writes = IF @ < WriteCap THEN @ + 1 ELSE @]
           token == r.toks[r.j]
       IN \E ok \in BOOLEAN :
            /\ r.scripted => (ok <=> r.writes \notin r.fails)
            /\ IF ok
               THEN /\ store' = [store EXCEPT ![token.id] =
                           writeattr(@, CursorAttr(token), r.step)]
                    /\ req' = [req EXCEPT ![p] =
                           [r EXCEPT !.pc = "done", !.result = TRUE,
                                     !.toks[r.j] = SaveCursor(token, r.step),
                                     !.acc = U64(r.step - Consumed(r))]]
               ELSE /\ store' = store
                    /\ req' = [req EXCEPT ![p] = LoopNext([r EXCEPT !.wfail = TRUE])]
    /\ UNCHANGED <<now, last, nreq>>

\* The request has returned; its tokens are freed (otptoken_free_array).
Finish(p) ==
    /\ req[p].pc = "done"
    /\ req' = [req EXCEPT ![p] = Idle]
    /\ last' = IF req[p].result
               THEN [last EXCEPT ![req[p].toks[req[p].j].id] =
                        [set |-> TRUE, op |-> req[p].op, s |-> req[p].acc,
                         now |-> req[p].now,
                         entry |-> store[req[p].toks[req[p].j].id]]]
               ELSE last
    /\ UNCHANGED <<store, now, nreq>>

\* ------------------------------------------------------------ specifications
\* the entries a token can have when it is first used
InitEntries ==
    { Entry("HOTP", 1, c, 0, 0) : c \in {0, 5, IntMax} }
    \cup { Entry("TOTP", 1, 0, 0, ts) : ts \in {0, 2} }
    \cup { Entry("HOTP", 2, 0, 0, 0), Entry("TOTP", 2, 0, 0, 2) }

\* Sequential runs on one token: one thread, one request after the other.
Init ==
    /\ store \in { [t \in Toks |-> IF t = 1 THEN e ELSE Entry("HOTP", 1, 0, 0, 0)]
                   : e \in InitEntries }
    /\ now = 0
    /\ req = [p \in Procs |-> Idle]
    /\ last = [t \in Toks |-> NoLast]
    /\ nreq = 0

Next ==
    \/ Begin(1, BOOLEAN, {<<1>>}, 0 .. MaxSteps,
             (0 - MaxSteps) .. (MaxSteps + 1), MaxReqs)
    \/ ValidateCall(1)
    \/ WriteOffset(1)
    \/ WriteCursor(1)
    \/ Finish(1)

Spec == Init /\ [][Next]_vars

\* Concurrent single-code validation requests against one token entry: two
\* server threads, each with its own tokens, interleaved at the store
\* operations; one request per thread.
ConcEntries ==
    { Entry("HOTP", 1, 0, 0, 0), Entry("HOTP", 2, 5, 0, 0),
      Entry("TOTP", 1, 0, 0, 2), Entry("TOTP", 2, 0, 0, 0) }

ConcInit ==
    /\ store \in { [t \in Toks |-> IF t = 1 THEN e ELSE Entry("HOTP", 1, 0, 0, 0)]
                   : e \in ConcEntries }
    /\ now = 0
    /\ req = [p \in Procs |-> Idle]
    /\ last = [t \in Toks |-> NoLast]
    /\ nreq = 0

ConcNext ==
    \E p \in Procs :
        \/ Begin(p, {FALSE}, {<<1>>}, {0, MaxSteps}, {0, MaxSteps},
                 Cardinality(Procs))
        \/ ValidateCall(p)
        \/ WriteCursor(p)
        \/ Finish(p)

ConcSpec == ConcInit /\ [][ConcNext]_vars

\* Multi-token synchronization: one otptoken_sync request over the array of
\* two tokens that otptoken_find returned for a user.
SyncFirst ==
    { Entry("TOTP", 1, 0, 0, 2), Entry("HOTP", 1, 0, 0, 0) }

SyncSecond ==
    { Entry("TOTP", 2, 0, 0, 2), Entry("TOTP", 1, 0, 2, 2),
      Entry("HOTP", 2, 0, 0, 0), Entry("HOTP", 1, 2, 0, 0) }

SyncInit ==
    /\ store \in { [t \in Toks |-> IF t = 1 THEN a ELSE b]
                   : a \in SyncFirst, b \in SyncSecond }
    /\ now = 0
    /\ req = [p \in Procs |-> Idle]
    /\ last = [t \in Toks |-> NoLast]
    /\ nreq = 0

SyncNext ==
    \/ Begin(1, {TRUE}, {<<1, 2>>}, 0 .. MaxSteps,
             (0 - MaxSteps) .. (MaxSteps + 1), 1)
    \/ Begin(1, {FALSE}, {<<1>>}, 0 .. MaxSteps,
             (0 - MaxSteps) .. (MaxSteps + 1), 1)
    \/ ValidateCall(1)
    \/ WriteOffset(1)
    \/ WriteCursor(1)
    \/ Finish(1)

SyncSpec == SyncInit /\ [][SyncNext]_vars

\* ------------------------------------------------------------ code decoding
\* the characters '0' and '9' (libotp.c:511)
Char0 == 48
Char9 == 57

\* bvtod, lines 506-518, on the bytes of a berval: the decimal value, or
\* failure on a byte that is no digit and on an empty berval.  The value is a
\* uint32_t; for the at most 8 bytes otptoken_validate_berval passes it does
\* not wrap.
RECURSIVE bvtod_value(_)
bvtod_value(code) ==
    IF Len(code) = 0 THEN 0
    ELSE bvtod_value(SubSeq(code, 1, Len(code) - 1)) * 10
         + (code[Len(code)] - Char0)

bvtod(code) ==
    IF \E i \in 1 .. Len(code) : code[i] < Char0 \/ code[i] > Char9
    THEN [ok |-> FALSE, out |-> 0]
    ELSE [ok |-> Len(code) # 0, out |-> bvtod_value(code)]

\* otptoken_validate_berval, lines 520-541, up to the call of
\* otptoken_validate: the text handed to bvtod
berval_selected(bv, digits, tail) ==
    IF tail THEN SubSeq(bv, Len(bv) - digits + 1, Len(bv))
    ELSE SubSeq(bv, 1, digits)

berval_decode(bv, digits, tail) ==
    IF Len(bv) < digits THEN [ok |-> FALSE, out |-> 0]
    ELSE bvtod(berval_selected(bv, digits, tail))

\* the bytes a credential is made of, and the credentials presented: up to
\* MaxLen bytes, all the same but for at most one
Chars == {Char0 - 1, Char0, Char0 + 7, Char9, Char9 + 1}

Credentials ==
    { [i \in 1 .. n |-> IF i = k THEN c ELSE b] :
        n \in 0 .. MaxLen, k \in 0 .. MaxLen, b \in Chars, c \in Chars }

\* otptoken_validate_berval on the credential the caller holds: a malformed
\* credential returns false at once, a decoded one starts otptoken_validate
BeginBerval(p) ==
    /\ req[p].pc = "idle"
    /\ nreq < 1
    /\ nreq' = nreq + 1
    /\ \E steps \in 0 .. MaxSteps :
         LET toks == <<otptoken_new(1, store[1])>>
             dec == berval_decode(req[p].bv, req[p].digits, req[p].tail)
             r == [req[p] EXCEPT !.op = "validate", !.toks = toks, !.steps = steps,
                                 !.toks0 = toks, !.store0 = store]
         IN  req' = [req EXCEPT ![p] =
                 IF dec.ok THEN [r EXCEPT !.pc = "call", !.first = dec.out]
                 ELSE [r EXCEPT !.pc = "done", !.result = FALSE]]
    /\ UNCHANGED <<store, now, last>>

DecodeEntries ==
    { Entry("HOTP", 1, 0, 0, 0), Entry("HOTP", 1, 5, 0, 0) }

DecodeInit ==
    /\ store \in { [t \in Toks |-> e] : e \in DecodeEntries }
    /\ now = 0
    /\ req \in { [p \in Procs |-> IF p = 1
                                   THEN [Idle EXCEPT !.bv = b, !.tail = tl, !.digits = dg]
                                   ELSE Idle]
                 : b \in Credentials, tl \in BOOLEAN, dg \in {6, 8} }
    /\ last = [t \in Toks |-> NoLast]
    /\ nreq = 0

DecodeNext ==
    \/ BeginBerval(1)
    \/ ValidateCall(1)
    \/ WriteCursor(1)
    \/ Finish(1)

DecodeSpec == DecodeInit /\ [][DecodeNext]_vars

\* ------------------------------------------------------------ construction
\* strcasecmp(a, b) == 0 on the names that occur: equality of the names
\* folded to lower case
ToLower(str) ==
    CASE str = "ipaTokenTOTP" -> "ipatokentotp"
      [] str = "IPATOKENTOTP" -> "ipatokentotp"
      [] str = "ipaTokenHOTP" -> "ipatokenhotp"
      [] str = "SHA256" -> "sha256"
      [] str = "Sha512" -> "sha512"
      [] OTHER -> str

\* is_algo_valid, lines 94-107
is_algo_valid(algo) ==
    \/ ToLower(algo) = "sha1"
    \/ ToLower(algo) = "sha256"
    \/ ToLower(algo) = "sha384"
    \/ ToLower(algo) = "sha512"

\* otptoken_new, lines 277-287: the loop over the objectClass values; every
\* marker overwrites the type found before
RECURSIVE otptoken_type(_)
otptoken_type(vals) ==
    IF Len(vals) = 0 THEN "NONE"
    ELSE LET v == vals[Len(vals)]
             before == otptoken_type(SubSeq(vals, 1, Len(vals) - 1))
         IN  IF ToLower(v) = "ipatokentotp" THEN "TOTP"
             ELSE IF ToLower(v) = "ipatokenhotp" THEN "HOTP"
             ELSE before

\* slapi_entry_attr_get_int / _get_uint on a record of the directory: 0 for
\* an attribute the record does not have
attr_get(rec, attr) == IF attr \in rec.has THEN rec[attr] ELSE 0

\* otptoken_new, lines 277-317: the checks that end in `goto error`
otptoken_valid(rec) ==
    /\ otptoken_type(rec.objectClass) # "NONE"
    /\ rec.sdn
    /\ rec.key # 0
    /\ rec.digits = 6 \/ rec.digits = 8
    /\ is_algo_valid(IF rec.algorithm = "" THEN "sha1" ELSE rec.algorithm)

\* the attributes of a record that lines 319-338 read
record_entry(rec) ==
    [type |-> otptoken_type(rec.objectClass), key |-> rec.key,
     watermark |-> attr_get(rec, "watermark"),
     clockOffset |-> attr_get(rec, "clockOffset"),
     timeStep |-> attr_get(rec, "timeStep"),
     counter |-> attr_get(rec, "counter")]

\* the NULL that otptoken_new returns on error
NullToken == [id |-> 0, type |-> "NONE", key |-> 0,
              watermark |-> 0, step |-> 0, offset |-> 0, counter |-> 0]

\* otptoken_new, lines 266-345, on any record
otptoken_new_record(id, rec) ==
    IF otptoken_valid(rec) THEN otptoken_new(id, record_entry(rec)) ELSE NullToken

\* find, lines 411-422: the array of tokens, or NULL as soon as one record
\* yields no token
RECURSIVE find(_, _)
find(ids, recs) ==
    IF Len(ids) = 0 THEN [ok |-> TRUE, tokens |-> <<>>]
    ELSE LET head == find(SubSeq(ids, 1, Len(ids) - 1), recs)
             token == otptoken_new_record(ids[Len(ids)], recs[ids[Len(ids)]])
         IN  IF ~head.ok \/ token = NullToken
             THEN [ok |-> FALSE, tokens |-> <<>>]
             ELSE [ok |-> TRUE, tokens |-> Append(head.tokens, token)]

\* the records of the directory a lookup can meet
ObjectClassValues ==
    { <<>>, <<"ipaToken">>, <<"ipaToken", "ipaTokenTOTP">>, <<"IPATOKENTOTP">>,
      <<"ipaTokenHOTP", "ipaToken">>, <<"ipaTokenTOTP", "ipaTokenHOTP">>,
      <<"ipaTokenHOTP", "ipaTokenTOTP">> }

Record(oc, sdn, key, digits, algorithm, has) ==
    [objectClass |-> oc, sdn |-> sdn, key |-> key, digits |-> digits,
     algorithm |-> algorithm, has |-> has,
     watermark |-> 3, clockOffset |-> 2, timeStep |-> 2, counter |-> 5]

Records ==
    { Record(oc, sdn, key, digits, algorithm, has) :
        oc \in ObjectClassValues, sdn \in BOOLEAN, key \in {0, 1},
        digits \in {0, 6, 7, 8},
        algorithm \in {"", "sha1", "SHA256", "Sha512", "md5"},
        has \in { {}, {"timeStep"}, {"watermark", "clockOffset", "timeStep", "counter"} } }

SiblingRecords ==
    { Record(<<"ipaTokenHOTP">>, TRUE, 1, 6, "", {}),
      Record(<<"ipaTokenTOTP">>, TRUE, 2, 8, "sha512", {"timeStep"}),
      Record(<<"ipaTokenHOTP">>, TRUE, 1, 7, "", {}) }

\* otptoken_find: the search returned the entries req[p].ids; find builds
\* the tokens
Lookup(p) ==
    /\ req[p].pc = "idle"
    /\ nreq < 1
    /\ nreq' = nreq + 1
    /\ LET f == find(req[p].ids, store)
       IN  req' = [req EXCEPT ![p] =
                     [@ EXCEPT !.pc = "done", !.op = "find", !.result = f.ok,
                               !.toks = f.tokens]]
    /\ UNCHANGED <<store, now, last>>

\* otptoken_free_array, lines 255-264: the caller releases the array
Release(p) ==
    /\ req[p].pc = "done"
    /\ req[p].op = "find"
    /\ req' = [req EXCEPT ![p] = Idle]
    /\ UNCHANGED <<store, now, last, nreq>>

LookupInit ==
    /\ store \in { [t \in Toks |-> IF t = 1 THEN a ELSE b]
                   : a \in Records, b \in SiblingRecords }
    /\ now = 0
    /\ req \in { [p \in Procs |-> IF p = 1 THEN [Idle EXCEPT !.ids = ids] ELSE Idle]
                 : ids \in { <<>>, <<1>>, <<1, 2>>, <<2, 1>> } }
    /\ last = [t \in Toks |-> NoLast]
    /\ nreq = 0

LookupNext ==
    \/ Lookup(1)
    \/ Release(1)

LookupSpec == LookupInit /\ [][LookupNext]_vars

\* -------------------------------------------------- the search, collapsed
\* The same request run twice, on two token entries with the same content and
\* against the same store behaviour: thread 1 runs the loops as written,
\* thread 2 enters them after the first of the two evaluations of offset 0,
\* so that it evaluates offset 0 once.

CollapseEntries ==
    { Entry("HOTP", 1, 0, 0, 0), Entry("HOTP", 2, 5, 0, 0),
      Entry("TOTP", 1, 0, 0, 2), Entry("TOTP", 2, 0, 2, 0) }

BeginPair ==
    /\ \A p \in Procs : req[p].pc = "idle"
    /\ nreq < 1
    /\ nreq' = nreq + 1
    /\ \E two \in BOOLEAN, steps \in 0 .. MaxSteps, t \in now .. MaxNow,
          d \in (0 - MaxSteps) .. (MaxSteps + 1), e \in 1 .. 2 :
         LET op == IF two THEN "sync" ELSE "validate"
             request(p) ==
                 LET toks == <<otptoken_new(p, store[p])>>
                     dev == toks[1]
                     reads == two \/ dev.type = "TOTP"
                     tnow == IF reads THEN t ELSE 0
                     x == AbsStep(dev, tnow, d)
                 IN  [req[p] EXCEPT
                        !.pc = "call", !.op = op, !.toks = toks, !.now = tnow,
                        !.steps = steps, !.neg = (p = 2),
                        !.first = hotp(dev, U64(x)),
                        !.second = IF two THEN hotp(dev, U64(x + e)) ELSE 0,
                        !.toks0 = toks, !.store0 = store]
         IN  /\ ~two => e = 1
             /\ now' = t
             /\ req' = [p \in Procs |-> request(p)]
    /\ UNCHANGED <<store, last>>

CollapseInit ==
    /\ store \in { [t \in Toks |-> e] : e \in CollapseEntries }
    /\ now = 0
    /\ req \in { [p \in Procs |-> [Idle EXCEPT !.scripted = TRUE, !.fails = f]]
                 : f \in SUBSET (1 .. MaxWrites) }
    /\ last = [t \in Toks |-> NoLast]
    /\ nreq = 0

CollapseNext ==
    \/ BeginPair
    \/ \E p \in Procs :
         \/ ValidateCall(p)
         \/ WriteOffset(p)
         \/ WriteCursor(p)

CollapseSpec == CollapseInit /\ [][CollapseNext]_vars

\* ------------------------------------------------------- the whole radius
\* One request over one token with a radius drawn from the whole range of
\* size_t.  The server thread that runs the request keeps running and every
\* store call returns: the steps of the request are weakly fair.
SweepEntries ==
    { Entry("HOTP", 1, 2, 0, 0), Entry("TOTP", 1, 0, 0, 2) }

BeginSweep(p) ==
    /\ req[p].pc = "idle"
    /\ nreq < 1
    /\ nreq' = nreq + 1
    /\ \E two \in BOOLEAN, d \in (0 - 1) .. 0 :
         LET toks == <<otptoken_new(1, store[1])>>
             dev == toks[1]
             reads == two \/ dev.type = "TOTP"
             tnow == IF reads THEN now ELSE 0
             x == AbsStep(dev, tnow, d)
         IN  req' = [req EXCEPT ![p] =
                    [@ EXCEPT !.pc = "call",
                              !.op = IF two THEN "sync" ELSE "validate",
                              !.toks = toks, !.now = tnow,
                              !.first = hotp(dev, U64(x)),
                              !.second = IF two THEN hotp(dev, U64(x + 1)) ELSE 0,
                              !.toks0 = toks, !.store0 = store]]
    /\ UNCHANGED <<store, now, last>>

SweepInit ==
    /\ store \in { [t \in Toks |-> e] : e \in SweepEntries }
    /\ now = 0
    /\ req \in { [p \in Procs |->
                    IF p = 1 THEN [Idle EXCEPT !.steps = n, !.wide = w] ELSE Idle]
                 : n \in {0, 1, IntMax - 1, IntMax, LongMod - 1}, w \in BOOLEAN }
    /\ last = [t \in Toks |-> NoLast]
    /\ nreq = 0

SweepNext ==
    \/ BeginSweep(1)
    \/ ValidateCall(1)
    \/ WriteOffset(1)
    \/ WriteCursor(1)
    \/ Finish(1)

SweepSpec ==
    /\ SweepInit
    /\ [][SweepNext]_vars
    /\ WF_vars(ValidateCall(1))
    /\ WF_vars(WriteOffset(1))
    /\ WF_vars(WriteCursor(1))

\* ------------------------------------------------------------ the requests
Done(p) == req[p].pc = "done"
Accepted(p) == Done(p) /\ req[p].result
\* the token a request accepted on: as built from the store, and as it is now
Tok0(p) == req[p].toks0[req[p].j]
Tok(p) == req[p].toks[req[p].j]
\* the token a fresh construction from the store would give
Durable(t) == otptoken_new(t, store[t])
\* the stored integer of the cursor attribute
StoredCursor(entry) == IF entry.type = "TOTP" THEN entry.watermark ELSE entry.counter

\* ------------------------------------------------------------------ claims

\* C1: in a sequential run in which every commit succeeds and the generator
\* gives distinct codes to distinct steps, after otptoken_validate accepts at
\* step s the in-memory cursor and the cursor a token rebuilt from the store
\* reads are both s + 1, and no later validation accepts at a step <= an
\* earlier accepted step (no code of a step <= s is accepted again).
C1_ReplayRejected ==
    \A p \in Procs :
        /\ Accepted(p) /\ req[p].op = "validate"
        /\ ~req[p].wfail /\ Tok0(p).key = 1
        =>
            /\ Cursor(Tok(p)) = req[p].acc + 1
            /\ Cursor(Durable(Tok(p).id)) = req[p].acc + 1
            /\ last[Tok(p).id].set => req[p].acc > last[Tok(p).id].s

\* C2: an accepted HOTP step is never below the counter the request started
\* with, and the committed counter is strictly greater than the previous one.
C2_HotpNeverBackward ==
    \A p \in Procs :
        Accepted(p) /\ Tok0(p).type = "HOTP" =>
            /\ req[p].acc >= Tok0(p).counter
            /\ store[Tok(p).id].counter > req[p].store0[Tok(p).id].counter

C4_CommitOrNoChange ==
    \A p \in Procs :
        Done(p) /\ req[p].wfail /\ ~req[p].result =>
            \A k \in 1 .. Len(req[p].toks) :
                store[req[p].toks[k].id] = req[p].store0[req[p].toks[k].id]

\* C5: the stored cursor of an entry (HOTP counter, TOTP watermark) never
\* decreases, under every interleaving of requests.
C5_DurableCursorMonotone ==
    [][\A t \in Toks : StoredCursor(store'[t]) >= StoredCursor(store[t])]_vars

\* C6: a cursor write is a blind replace: whenever a request's cursor write
\* succeeds, the stored cursor is the value that request computed, whatever
\* the entry held (also a larger value written by a concurrent request).
C6_BlindReplace ==
    [][\A p \in Procs :
          req[p].pc = "wr_cursor" /\ req'[p].pc = "done" /\ req'[p].result =>
              StoredCursor(store'[Tok(p).id]) = ToInt(req[p].step)]_vars

\* C6 witness: two requests built from the same entry, presenting the same
\* code, have both succeeded at the same step.
C6_BothSucceed ==
    /\ Accepted(1) /\ Accepted(2)
    /\ req[1].store0 = req[2].store0
    /\ req[1].op = "validate" /\ req[2].op = "validate"
    /\ req[1].first = req[2].first
    /\ req[1].acc = req[2].acc

\* the baseline step as the specification defines it
SpecBaseline(token, t) ==
    IF token.type = "TOTP" THEN (t + token.offset) \div token.step
    ELSE token.counter

Candidate(k) == IF k % 2 = 1 THEN (k - 1) \div 2 ELSE 0 - ((k - 2) \div 2)

\* the positions of the sweep at which validate() finds a match
MatchingAt(r, token) ==
    { k \in 1 .. 2 * (r.steps + 1) :
        Matches(token, r.now, Candidate(k), r.first, r.second, r.op = "sync") }

\* the step of the first matching candidate of the sweep
FirstMatch(r, token) ==
    LET ks == MatchingAt(r, token)
        k0 == CHOOSE k \in ks : \A m \in ks : k <= m
    IN  U64(AbsStep(token, r.now, Candidate(k0)))

\* C8: single-code validation accepts at the first matching candidate of the
\* sweep B+0, B-0, B+1, B-1, ... and then writes exactly s + 1 to the cursor
\* attribute and to the in-memory cursor.
C8_FirstMatchWins ==
    \A p \in Procs :
        Accepted(p) /\ req[p].op = "validate" =>
            /\ MatchingAt(req[p], Tok0(p)) # {}
            /\ req[p].acc = FirstMatch(req[p], Tok0(p))
            /\ StoredCursor(store[Tok(p).id]) = req[p].acc + 1
            /\ Cursor(Tok(p)) = req[p].acc + 1

\* C9: two-code mode accepts at s only if the codes of s and s + 1 are the
\* two presented codes, at the first such candidate; the committed and
\* in-memory cursor is s + 2; for TOTP the clock offset
\* (s + 2 - floor(now / step)) * step is committed, for HOTP only the counter.
C9_TwoCodeResync ==
    \A p \in Procs :
        Accepted(p) /\ req[p].op = "sync" =>
            /\ hotp(Tok0(p), req[p].acc) = req[p].first
            /\ hotp(Tok0(p), U64(req[p].acc + 1)) = req[p].second
            /\ StoredCursor(store[Tok(p).id]) = req[p].acc + 2
            /\ Cursor(Tok(p)) = req[p].acc + 2
            /\ Tok0(p).type = "TOTP" =>
                 store[Tok(p).id].clockOffset =
                     (req[p].acc + 2 - (req[p].now \div Tok0(p).step)) * Tok0(p).step
            /\ Tok0(p).type = "HOTP" =>
                 store[Tok(p).id].clockOffset = req[p].store0[Tok(p).id].clockOffset

\* the step a device shows at time t when it showed step l.s + 1 at the time
\* l.now of the synchronization and advances one step per step_seconds
DeviceStep(l, token, t) == l.s + 1 + (t \div token.step) - (l.now \div token.step)

\* a request on a TOTP token whose entry is as the latest synchronization
\* left it
AfterSync(p) ==
    /\ req[p].pc # "idle" /\ req[p].op = "validate"
    /\ Tok0(p).type = "TOTP"
    /\ last[Tok0(p).id].set /\ last[Tok0(p).id].op = "sync"
    /\ req[p].store0[Tok0(p).id] = last[Tok0(p).id].entry

OffsetFits(l, token) ==
    LET off == (l.s + 2 - (l.now \div token.step)) * token.step
    IN  off >= 0 - (IntMod \div 2) /\ off <= IntMax

SyncPos(r, i, j, neg) == (i * Len(r.toks) + (j - 1)) * 2 + (IF neg THEN 1 ELSE 0)

\* the combinations of the sweep at which validate() finds a two-code match
SyncMatching(r) ==
    { c \in (0 .. r.steps) \X (1 .. Len(r.toks)) \X BOOLEAN :
        Matches(r.toks0[c[2]], r.now, IF c[3] THEN 0 - c[1] ELSE c[1],
                r.first, r.second, TRUE) }

\* C11: a multi-token synchronization that returns success without a failed
\* write has accepted at the first matching (radius, token, sign) combination
\* of the radius-first order, and when a synchronization returns success only
\* the matched token has changed: the store record and the in-memory state of
\* every other candidate token are as the request found them.
C11_SyncOnlyMatchedTokenChanges ==
    \A p \in Procs :
        Accepted(p) /\ req[p].op = "sync" /\ Len(req[p].toks) > 1 =>
            /\ ~req[p].wfail =>
                 \A c \in SyncMatching(req[p]) :
                    SyncPos(req[p], req[p].i, req[p].j, req[p].neg)
                        <= SyncPos(req[p], c[1], c[2], c[3])
            /\ \A k \in 1 .. Len(req[p].toks) :
                 k # req[p].j =>
                    /\ req[p].toks[k] = req[p].toks0[k]
                    /\ store[req[p].toks[k].id] = req[p].store0[req[p].toks[k].id]

\* C12: a request issues at most two store writes and never goes on after a
\* failed write: once a write has failed the request has returned failure, with
\* no further candidate evaluated and no further write issued.
C12_NoRetryAfterFailedCommit ==
    \A p \in Procs :
        /\ req[p].writes <= 2
        /\ req[p].wfail => Done(p) /\ ~req[p].result

\* the text the specification selects: the last code_length characters with
\* tail, the whole input without; well formed when it is exactly code_length
\* decimal digits
SpecSelected(bv, digits, tail) ==
    IF tail /\ Len(bv) >= digits THEN SubSeq(bv, Len(bv) - digits + 1, Len(bv))
    ELSE bv

SpecWellFormed(bv, digits, tail) ==
    LET t == SpecSelected(bv, digits, tail)
    IN  /\ Len(t) = digits
        /\ \A i \in 1 .. Len(t) : t[i] >= Char0 /\ t[i] <= Char9

\* a request of otptoken_validate_berval has been decided: it either runs the
\* search or has returned without it
Searched(p) == req[p].calls > 0 \/ req[p].pc = "call"

\* C13: otptoken_validate_berval runs the search if and only if the selected
\* text is exactly code_length decimal digits, then with the base-10 value of
\* that text as the code; a malformed credential returns false with no
\* candidate evaluated and no store write.
C13_DecodeExactlyCodeLength ==
    \A p \in Procs :
        req[p].pc # "idle" /\ req[p].digits > 0 =>
            IF SpecWellFormed(req[p].bv, req[p].digits, req[p].tail)
            THEN /\ Searched(p)
                 /\ req[p].first =
                       bvtod_value(SpecSelected(req[p].bv, req[p].digits, req[p].tail))
            ELSE /\ Done(p) /\ ~req[p].result
                 /\ req[p].calls = 0 /\ req[p].writes = 0

\* how many type markers a record carries
RECURSIVE Markers(_)
Markers(vals) ==
    IF Len(vals) = 0 THEN 0
    ELSE Markers(SubSeq(vals, 1, Len(vals) - 1))
         + (IF ToLower(vals[Len(vals)]) = "ipatokentotp"
               \/ ToLower(vals[Len(vals)]) = "ipatokenhotp" THEN 1 ELSE 0)

\* the records the specification builds a Token from
SpecConstructible(rec) ==
    /\ Markers(rec.objectClass) = 1
    /\ rec.sdn
    /\ rec.key # 0
    /\ rec.digits = 6 \/ rec.digits = 8
    /\ is_algo_valid(IF rec.algorithm = "" THEN "sha1" ELSE rec.algorithm)

\* a lookup of the single record 1 has returned
LookedUpOne(p) == Done(p) /\ req[p].op = "find" /\ req[p].ids = <<1>>

\* C14: otptoken_new yields a token if and only if the record carries exactly
\* one type marker, an identity, a key, a code length of 6 or 8 and a valid
\* algorithm; a built TOTP token has step 30 when the stored step is absent or
\* 0 and offset and watermark 0 when absent, a built HOTP token counter 0 when
\* absent.
C14_ConstructionAllOrNothing ==
    \A p \in Procs :
        LookedUpOne(p) =>
            /\ req[p].result <=> SpecConstructible(store[1])
            /\ req[p].result =>
                 LET t == req[p].toks[1]
                     absent(a) == a \notin store[1].has
                 IN  /\ t.type = "TOTP" /\ (absent("timeStep") \/ store[1].timeStep = 0)
                          => t.step = IPA_OTP_DEFAULT_TOKEN_STEP
                     /\ t.type = "TOTP" /\ absent("clockOffset") => t.offset = 0
                     /\ t.type = "TOTP" /\ absent("watermark") => t.watermark = 0
                     /\ t.type = "HOTP" /\ absent("counter") => t.counter = 0

\* C15: a lookup of several records fails only if no record yields a token,
\* and otherwise returns the tokens of the records that do.
C15_SiblingRecordsSurvive ==
    \A p \in Procs :
        Done(p) /\ req[p].op = "find" /\ Len(req[p].ids) > 1 =>
            LET valid == { k \in 1 .. Len(req[p].ids) :
                             otptoken_valid(store[req[p].ids[k]]) }
            IN  /\ valid # {} => req[p].result
                /\ req[p].result =>
                     /\ Len(req[p].toks) = Cardinality(valid)
                     /\ \A k \in valid :
                          \E m \in 1 .. Len(req[p].toks) :
                              req[p].toks[m] =
                                otptoken_new_record(req[p].ids[k], store[req[p].ids[k]])

\* C16: after a request succeeds, the token in memory equals the token a
\* fresh construction from the store gives (cursor and, for TOTP, clock
\* offset); after a request fails, the cursor and offset in memory are those
\* the request started with.
C16_MemoryMatchesStore ==
    \A p \in Procs :
        /\ Accepted(p) => Tok(p) = Durable(Tok(p).id)
        /\ Done(p) /\ ~req[p].result =>
             \A k \in 1 .. Len(req[p].toks) :
                 /\ Cursor(req[p].toks[k]) = Cursor(req[p].toks0[k])
                 /\ req[p].toks[k].offset = req[p].toks0[k].offset

\* the observable outcome of a finished request on its one token: the
\* result, the number of store writes, the token in memory and the entry
Outcome(p) ==
    [result |-> req[p].result, writes |-> req[p].writes,
     cursor |-> Cursor(req[p].toks[1]), offset |-> req[p].toks[1].offset,
     entry |-> store[req[p].toks[1].id]]

\* C17: for every token state, code(s) and store behaviour, the search as
\* written (offset 0 evaluated as +0 and as -0) and a search that evaluates
\* offset 0 once return the same result, issue the same store writes and
\* leave the same state in memory and in the store.
C17_ZeroTwiceUnobservable ==
    Done(1) /\ Done(2) /\ req[1].scripted /\ req[2].scripted
        => Outcome(1) = Outcome(2)

\* no candidate of the whole sweep generates the presented code(s) while
\* passing the backward-motion guard
NoCandidateMatches(r) ==
    \A i \in 0 .. r.steps, k \in 1 .. Len(r.toks0), neg \in BOOLEAN :
        LET token == r.toks0[k]
            step == IF neg THEN 0 - i ELSE i
            s == AbsStep(token, r.now, step)
        IN  ~ /\ Guard(token, r.now, step)
              /\ hotp(token, U64(s)) = r.first
              /\ r.op = "sync" => hotp(token, U64(s + 1)) = r.second

\* a validation or synchronization request is under way or has returned
Searching(p) == req[p].op = "validate" \/ req[p].op = "sync"

\* C18: when no candidate of the sweep generates the presented code(s) while
\* passing the guard, the request issues no store write, returns false, and
\* leaves every token it examined unchanged in memory and in the store.
C18_NoMatchNoEffect ==
    \A p \in Procs :
        Searching(p) /\ NoCandidateMatches(req[p]) =>
            /\ req[p].writes = 0
            /\ ~req[p].wfail
            /\ ~req[p].result
            /\ req[p].toks = req[p].toks0
            /\ \A k \in 1 .. Len(req[p].toks) :
                 store[req[p].toks[k].id] = req[p].store0[req[p].toks[k].id]

\* a synchronization over two tokens has swept every candidate and returned
\* false
C18_SweepExhausted ==
    \E p \in Procs :
        /\ Done(p) /\ ~req[p].result
        /\ req[p].op = "sync" /\ Len(req[p].toks) > 1 /\ req[p].steps > 0
        /\ NoCandidateMatches(req[p])
        /\ req[p].calls = 2 * (req[p].steps + 1) * Len(req[p].toks)

\* the clock offset of a TOTP synchronization survives the write and the
\* read at construction
OffsetPersisted(p) ==
    req[p].op = "sync" /\ Tok(p).type = "TOTP" =>
        /\ store[Tok(p).id].clockOffset = NewOffset(Tok0(p), req[p].now, req[p].step)
        /\ Durable(Tok(p).id).offset = store[Tok(p).id].clockOffset

\* C19: after a successful commit the stored integer equals the cursor kept
\* in memory, for every value of the unsigned 64-bit cursor, and a token
\* rebuilt from the entry reads the same cursor; the clock offset written by a
\* TOTP synchronization reads back as written, negative values included.
C19_PersistedEqualsComputed ==
    \A p \in Procs :
        Accepted(p) =>
            /\ StoredCursor(store[Tok(p).id]) = Cursor(Tok(p))
            /\ Cursor(Durable(Tok(p).id)) = Cursor(Tok(p))
            /\ OffsetPersisted(p)

\* a request never evaluates more than 2 * (steps + 1) candidate offsets per
\* candidate token
SweepBounded ==
    \A p \in Procs :
        Searching(p) => req[p].calls <= 2 * (req[p].steps + 1) * Len(req[p].toks0)

\* C20: every otptoken_validate and otptoken_sync request eventually returns
\* when each store call it issues returns, after at most 2 * (steps + 1)
\* candidate offsets per candidate token.
C20_RequestReturns ==
    /\ []SweepBounded
    /\ \A p \in Procs : (req[p].pc = "call") ~> Done(p)

====
